---- MODULE Spec2Model ----
(***************************************************************************)
(* State-machine model of the dynamic unit layer of QSDsan:                *)
(*   qsdsan/sanunits/_abstract.py  Mixer, Splitter, ComponentSplitter      *)
(*   qsdsan/sanunits/_pumping.py   Pump, HydraulicDelay                    *)
(*                                                                         *)
(* Numbers.  numpy floats are modelled as exact extended rationals         *)
(* <<n, d>> in lowest terms with d >= 0:  d > 0 is the finite value n/d,   *)
(* <<1,0>> is +inf, <<-1,0>> is -inf and <<0,0>> is nan, with the IEEE     *)
(* rules numpy applies to them (x/0 = +-inf, 0/0 = nan, 0*inf = nan, nan   *)
(* propagates, nan equals nothing).  Rounding and the sign of zero are     *)
(* not modelled.                                                           *)
(*                                                                         *)
(* Arrays are sequences of such numbers; None is the empty sequence (no    *)
(* array of length 0 is ever drawn as an input).  An assignment that       *)
(* aliases an array (self._outs[0]._state = arr) is modelled by value.     *)
(***************************************************************************)
EXTENDS Integers, Sequences, FiniteSets, TLC

\* ------------------------------------------------------------------ bounds
\* Most inputs a Mixer is built with.
MaxIns == 2
\* Split fractions are the multiples of 1/SplitDen in [0, 1].
SplitDen == 2

\* ----------------------------------------------------------------- numbers
Abs(x) == IF x < 0 THEN -x ELSE x
Sign(x) == IF x < 0 THEN -1 ELSE IF x = 0 THEN 0 ELSE 1
Max(a, b) == IF a < b THEN b ELSE a

RECURSIVE GCD(_, _)
GCD(a, b) == IF b = 0 THEN a ELSE GCD(b, a % b)

Norm(n, d) ==
    IF d = 0 THEN <<Sign(n), 0>>
    ELSE LET g == GCD(Abs(n), Abs(d))
             s == Sign(d)
         IN  <<(s * n) \div g, (s * d) \div g>>

R(n) == <<n, 1>>
NAN == <<0, 0>>
INF == <<1, 0>>
IsFinite(a) == a[2] # 0

\* a * b
RMul(a, b) == Norm(a[1] * b[1], a[2] * b[2])
\* 1 / a
RRecip(a) == IF a[1] < 0 THEN <<-a[2], -a[1]>> ELSE <<a[2], a[1]>>
\* a / b  (numpy true division: no exception on a zero divisor)
RDiv(a, b) == RMul(a, RRecip(b))
\* a + b
RAdd(a, b) ==
    IF a[2] = 0 /\ b[2] = 0 THEN (IF a = b THEN a ELSE NAN)
    ELSE Norm(a[1] * b[2] + b[1] * a[2], a[2] * b[2])
RNeg(a) == <<-a[1], a[2]>>
\* a - b
RSub(a, b) == RAdd(a, RNeg(b))
\* a == b  (nan equals nothing)
REq(a, b) == a # NAN /\ b # NAN /\ a = b

\* ------------------------------------------------------------------ arrays
None == << >>
VecOf(s) == [i \in DOMAIN s |-> R(s[i])]
\* v[:-1] and v[-1]
Conc(v) == SubSeq(v, 1, Len(v) - 1)
Flow(v) == v[Len(v)]
\* v * x  and  v / x  with a scalar x
VScale(v, x) == [i \in DOMAIN v |-> RMul(v[i], x)]
VDivS(v, x) == [i \in DOMAIN v |-> RDiv(v[i], x)]
\* elementwise a + b, a - b of equal shapes
VAdd(a, b) == [i \in DOMAIN a |-> RAdd(a[i], b[i])]
VSub(a, b) == [i \in DOMAIN a |-> RSub(a[i], b[i])]
\* a * b of two 1-D arrays: numpy broadcasts a length-1 operand and raises
\* ValueError on any other difference of shape
CanBroadcast(a, b) == Len(a) = Len(b) \/ Len(a) = 1 \/ Len(b) = 1
VMul(a, b) ==
    [i \in 1..Max(Len(a), Len(b)) |->
        RMul(a[IF Len(a) = 1 THEN 1 ELSE i], b[IF Len(b) = 1 THEN 1 ELSE i])]
\* sum of a sequence of numbers
RECURSIVE RSum(_)
RSum(s) == IF s = << >> THEN R(0) ELSE RAdd(s[1], RSum(Tail(s)))
\* w @ M for a vector w and a matrix M given as a sequence of rows
Dot(w, M) ==
    [j \in 1..Len(M[1]) |-> RSum([i \in DOMAIN w |-> RMul(w[i], M[i][j])])]
\* M[:, -1] and M[:, :-1]
LastCol(M) == [i \in DOMAIN M |-> Flow(M[i])]
HeadCols(M) == [i \in DOMAIN M |-> Conc(M[i])]

\* ------------------------------------------------------- component registry
\* self.components.IDs of the dynamic flowsheet; 'H2O' is the reference
\* component of a Splitter
IDs == <<"A", "H2O">>
NComp == Len(IDs)
index(id) == CHOOSE i \in DOMAIN IDs : IDs[i] = id


\* ---------------------------------------------------------- input domains
\* State Vectors <<C_A, C_H2O, Q>> an upstream stream buffer may hold
InVecs == {VecOf(<<100, 0, 10>>), VecOf(<<0, 200, 5>>), VecOf(<<0, 0, 0>>)}
\* arrays handed to _update_state / the state setter: right and wrong shapes
UpdVecs == {VecOf(<<40, 200, 5>>), VecOf(<<7>>), VecOf(<<1, 2>>)}
\* Derivative Vectors of an upstream stream buffer
DVecs == {VecOf(<<3, 0, 0>>), VecOf(<<-6, 2, 1>>)}
\* own-state argument QC of a derivative evaluation
QCVals == {VecOf(<<100, 0, 10>>), VecOf(<<40, 200, 5>>)}
\* split fractions and Split Ratio Vectors
SplitVals == {Norm(k, SplitDen) : k \in 0..SplitDen}
Splits == {s \in [1..NComp -> SplitVals] : TRUE}
\* t_delay: the default 1e-4 of HydraulicDelay.__init__ and one more
TVals == {Norm(1, 10000), R(2)}
\* keyword arguments of set_init_conc: a value for some of the components
Kwargs == UNION {[S -> {50}] : S \in SUBSET {IDs[i] : i \in DOMAIN IDs}}
SeqsOf(S, n) == [1..n -> S]

Kinds == {"Mixer", "Splitter", "Pump", "HydraulicDelay"}

\* -------------------------------------------------------------------- state
VARIABLES
    kind,               \* the class of the unit under study
    ins,                \* State Vectors held by the unit's input streams
    split,              \* Splitter.split (None for the other classes)
    t_delay,            \* HydraulicDelay.t_delay (None for the others)
    _state,             \* self._state
    _dstate,            \* self._dstate
    _ODE,               \* self._ODE: the cached dy_dt closure
    _split_out0_state,  \* Splitter: branch-0 scale (None: attribute not set)
    _split_out1_state,  \* Splitter: branch-1 scale
    _concs,             \* HydraulicDelay._concs
    outs,               \* the unit's output streams: [state, dstate] each
    nCompiled,          \* number of _compile_ODE calls so far
    last                \* the last call made on the unit and how it ended

nodeVars == <<kind, ins, split, t_delay, _state, _dstate, _ODE,
              _split_out0_state, _split_out1_state, _concs, outs,
              nCompiled, last>>

\* a ComponentSplitter of the steady-state flowsheet
VARIABLES
    built,              \* ComponentSplitter.__init__ has returned
    _split_keys,        \* self._split_keys
    _N_outs,            \* self._N_outs = len(self.outs)
    fan_ins,            \* imass of each input stream
    fan_outs,           \* imass of each output stream
    fan_last            \* the last call made on it and how it ended

fanVars == <<built, _split_keys, _N_outs, fan_ins, fan_outs, fan_last>>

\* a WWTpump of the steady-state flowsheet
VARIABLES
    pump_built,         \* WWTpump.__init__ has returned
    _pump_type,         \* self._pump_type (None: attribute not set)
    pump_last           \* the last call made on it, its argument, its end

pumpVars == <<pump_built, _pump_type, pump_last>>

\* a stream buffer after Stream.empty()
EmptyStream == [state |-> None, dstate |-> None]
empty(s) == EmptyStream

\* no compiled function yet
NoODE == [fn |-> "None", n_ins |-> 0, T |-> None, id |-> 0]

Call(op, err, arr, QC, dQC) ==
    [op |-> op, err |-> err, arr |-> arr, QC |-> QC, dQC |-> dQC]
NoCall == Call("__init__", "", None, None, None)

N_outs(k) == IF k = "Splitter" THEN 2 ELSE 1

\* SanUnit.__init__: no state, no derivative, no compiled function; the
\* output streams are created empty
SanUnit_init ==
    /\ _state = None
    /\ _dstate = None
    /\ _ODE = NoODE
    /\ outs = [i \in 1..N_outs(kind) |-> EmptyStream]
    /\ nCompiled = 0
    /\ last = NoCall

NodeInit ==
    /\ kind \in Kinds
    /\ ins \in IF kind = "Mixer"
               THEN UNION {SeqsOf(InVecs, n) : n \in 1..MaxIns}
               ELSE SeqsOf(InVecs, 1)
    /\ split \in IF kind = "Splitter" THEN Splits ELSE {None}
    /\ t_delay \in IF kind = "HydraulicDelay" THEN TVals ELSE {None}
    /\ _concs = None
    /\ _split_out0_state = None
    /\ _split_out1_state = None
    /\ SanUnit_init

\* SanUnit._collect_ins_state(): the input streams' State Vectors as rows
_collect_ins_state == ins


\* ------------------------------------------------------------ reset_cache
\* Mixer.reset_cache, Splitter.reset_cache, Pump.reset_cache (the last one
\* inherited by HydraulicDelay): the same three lines in each class
reset_cache_state == None
\* (variant: an output stream is left as it was)
reset_cache_outs_kept == outs
reset_cache_outs == [i \in DOMAIN outs |-> empty(outs[i])]

reset_cache(kinds) ==
    /\ kind \in kinds
    /\ _state' = reset_cache_state
    /\ outs' = reset_cache_outs
    /\ last' = Call("reset_cache", "", None, None, None)
    /\ UNCHANGED <<fanVars, pumpVars>>
    /\ UNCHANGED <<kind, ins, split, t_delay, _dstate, _ODE,
                   _split_out0_state, _split_out1_state, _concs, nCompiled>>

Mixer_reset_cache == reset_cache({"Mixer"})
Splitter_reset_cache == reset_cache({"Splitter"})
Pump_reset_cache == reset_cache({"Pump", "HydraulicDelay"})

\* ------------------------------------------------------------ _init_state
\* (variant: the plain mean of the inputs' concentrations)
Mixer_state0_unweighted(QCs) ==
    IF Len(QCs) <= 1 THEN QCs[1]
    ELSE LET Qs == LastCol(QCs)
             Cs == HeadCols(QCs)
             ones == [i \in DOMAIN QCs |-> R(1)]
         IN  Append(VDivS(Dot(ones, Cs), R(Len(QCs))), RSum(Qs))
\* Mixer._init_state: the row of a single input, else the flow-weighted mean
Mixer_state0(QCs) ==
    IF Len(QCs) <= 1 THEN QCs[1]
    ELSE LET Qs == LastCol(QCs)
             Cs == HeadCols(QCs)
         IN  Append(VDivS(Dot(Qs, Cs), RSum(Qs)), RSum(Qs))

\* self._dstate = self._state * 0.
zeros_like(v) == VScale(v, R(0))

Mixer_init_state ==
    /\ kind = "Mixer"
    /\ _state' = Mixer_state0(_collect_ins_state)
    /\ _dstate' = zeros_like(_state')
    /\ last' = Call("init_state", "", None, None, None)
    /\ UNCHANGED <<fanVars, pumpVars>>
    /\ UNCHANGED <<kind, ins, split, t_delay, _ODE, _split_out0_state,
                   _split_out1_state, _concs, outs, nCompiled>>

\* Splitter._init_state: the two branch scales
split_out0(s) ==
    LET s_flow == s[index("H2O")] IN Append(VDivS(s, s_flow), s_flow)
split_out1(s) ==
    LET s_flow == s[index("H2O")]
        c == [i \in DOMAIN s |-> RSub(R(1), s[i])]
    IN  Append(VDivS(c, RSub(R(1), s_flow)), RSub(R(1), s_flow))

Splitter_init_state ==
    /\ kind = "Splitter"
    /\ _state' = _collect_ins_state[1]
    /\ _dstate' = zeros_like(_state')
    /\ _split_out0_state' = split_out0(split)
    /\ _split_out1_state' = split_out1(split)
    /\ last' = Call("init_state", "", None, None, None)
    /\ UNCHANGED <<fanVars, pumpVars>>
    /\ UNCHANGED <<kind, ins, split, t_delay, _ODE, _concs, outs, nCompiled>>

Pump_state0(QCs) == QCs[1]

Pump_init_state ==
    /\ kind = "Pump"
    /\ _state' = Pump_state0(_collect_ins_state)
    /\ _dstate' = zeros_like(_state')
    /\ last' = Call("init_state", "", None, None, None)
    /\ UNCHANGED <<fanVars, pumpVars>>
    /\ UNCHANGED <<kind, ins, split, t_delay, _ODE, _split_out0_state,
                   _split_out1_state, _concs, outs, nCompiled>>

\* HydraulicDelay._init_state: the input's row with its concentrations
\* overwritten by the override; self._dstate is not assigned
\* (variant: the concentration override is not applied)
HydraulicDelay_state0_no_override(QCs, concs) == QCs[1]
HydraulicDelay_state0(QCs, concs) ==
    IF concs # None THEN Append(concs, Flow(QCs[1])) ELSE QCs[1]

HydraulicDelay_init_state ==
    /\ kind = "HydraulicDelay"
    /\ _state' = HydraulicDelay_state0(_collect_ins_state, _concs)
    /\ last' = Call("init_state", "", None, None, None)
    /\ UNCHANGED <<fanVars, pumpVars>>
    /\ UNCHANGED <<kind, ins, split, t_delay, _dstate, _ODE,
                   _split_out0_state, _split_out1_state, _concs, outs,
                   nCompiled>>

\* HydraulicDelay.set_init_conc(**kwargs)
init_conc(kwargs) ==
    [i \in 1..NComp |->
        IF IDs[i] \in DOMAIN kwargs THEN R(kwargs[IDs[i]]) ELSE R(0)]

set_init_conc_call(kwargs) ==
    /\ kind = "HydraulicDelay"
    /\ _concs' = init_conc(kwargs)
    /\ last' = Call("set_init_conc", "", None, None, None)
    /\ UNCHANGED <<fanVars, pumpVars>>
    /\ UNCHANGED <<kind, ins, split, t_delay, _state, _dstate, _ODE,
                   _split_out0_state, _split_out1_state, outs, nCompiled>>

set_init_conc == \E kwargs \in Kwargs : set_init_conc_call(kwargs)

\* ----------------------------------------------------------- _update_state
\* Mixer._update_state and Pump._update_state (inherited by HydraulicDelay):
\* self._state = self._outs[0]._state = arr, whatever the shape of arr
Pump_update_state_outs(arr) == [outs EXCEPT ![1].state = arr]

Mixer_update_state ==
    /\ kind = "Mixer"
    /\ \E arr \in UpdVecs :
        /\ _state' = arr
        /\ outs' = Pump_update_state_outs(arr)
        /\ last' = Call("update_state", "", arr, None, None)
    /\ UNCHANGED <<fanVars, pumpVars>>
    /\ UNCHANGED <<kind, ins, split, t_delay, _dstate, _ODE,
                   _split_out0_state, _split_out1_state, _concs, nCompiled>>

Pump_update_state ==
    /\ kind \in {"Pump", "HydraulicDelay"}
    /\ \E arr \in UpdVecs :
        /\ _state' = arr
        /\ outs' = Pump_update_state_outs(arr)
        /\ last' = Call("update_state", "", arr, None, None)
    /\ UNCHANGED <<fanVars, pumpVars>>
    /\ UNCHANGED <<kind, ins, split, t_delay, _dstate, _ODE,
                   _split_out0_state, _split_out1_state, _concs, nCompiled>>

\* Splitter._update_state: self._state is assigned first; the products then
\* raise AttributeError before any _init_state (the scales are not set) and
\* ValueError when arr does not broadcast against the scales
Splitter_update_state_err(arr) ==
    IF _split_out0_state = None THEN "AttributeError"
    ELSE IF ~CanBroadcast(_split_out0_state, arr) THEN "ValueError"
    ELSE ""

\* (variant: both outputs receive arr as it is)
Splitter_update_state_outs_unscaled(arr) ==
    [outs EXCEPT ![1].state = arr, ![2].state = arr]
Splitter_update_state_outs(arr) ==
    [outs EXCEPT ![1].state = VMul(_split_out0_state, arr),
                 ![2].state = VMul(_split_out1_state, arr)]

Splitter_update_state ==
    /\ kind = "Splitter"
    /\ \E arr \in UpdVecs :
        /\ _state' = arr
        /\ outs' = IF Splitter_update_state_err(arr) = ""
                   THEN Splitter_update_state_outs(arr) ELSE outs
        /\ last' = Call("update_state", Splitter_update_state_err(arr),
                        arr, None, None)
    /\ UNCHANGED <<fanVars, pumpVars>>
    /\ UNCHANGED <<kind, ins, split, t_delay, _dstate, _ODE,
                   _split_out0_state, _split_out1_state, _concs, nCompiled>>

\* ------------------------------------------------------------ state setter
\* Splitter.state and Pump.state setters: QCs.shape != (len(components)+1,)
state_setter_err(QCs) == IF Len(QCs) # NComp + 1 THEN "ValueError" ELSE ""

state_setter(kinds) ==
    /\ kind \in kinds
    /\ \E QCs \in UpdVecs :
        /\ _state' = IF state_setter_err(QCs) = "" THEN QCs ELSE _state
        /\ last' = Call("state.setter", state_setter_err(QCs), QCs, None, None)
    /\ UNCHANGED <<fanVars, pumpVars>>
    /\ UNCHANGED <<kind, ins, split, t_delay, _dstate, _ODE,
                   _split_out0_state, _split_out1_state, _concs, outs,
                   nCompiled>>

Splitter_state_setter == state_setter({"Splitter"})
Pump_state_setter == state_setter({"Pump", "HydraulicDelay"})

\* Mixer.state is a property without a setter: every assignment raises
Mixer_state_setter ==
    /\ kind = "Mixer"
    /\ \E QCs \in UpdVecs :
        last' = Call("state.setter", "AttributeError", QCs, None, None)
    /\ UNCHANGED <<fanVars, pumpVars>>
    /\ UNCHANGED <<kind, ins, split, t_delay, _state, _dstate, _ODE,
                   _split_out0_state, _split_out1_state, _concs, outs,
                   nCompiled>>


\* --------------------------------------------------------------------- ODE
\* the ODE property of Mixer, Splitter and Pump (inherited by
\* HydraulicDelay): compile when self._ODE is None, then return self._ODE
\* (variant: the test looks at the state instead of the cached function)
ODE_checks_state == _state = None
ODE_is_None == _ODE = NoODE

\* _compile_ODE of each class: the closure and what it captures
compile_ODE ==
    [fn |-> kind,
     n_ins |-> IF kind = "Mixer" THEN Len(ins) ELSE 0,
     T |-> IF kind = "HydraulicDelay" THEN t_delay ELSE None,
     id |-> nCompiled + 1]

ODE(kinds) ==
    /\ kind \in kinds
    /\ IF ODE_is_None
       THEN _ODE' = compile_ODE /\ nCompiled' = nCompiled + 1
       ELSE UNCHANGED <<_ODE, nCompiled>>
    /\ last' = Call("ODE", "", None, None, None)
    /\ UNCHANGED <<fanVars, pumpVars>>
    /\ UNCHANGED <<kind, ins, split, t_delay, _state, _dstate,
                   _split_out0_state, _split_out1_state, _concs, outs>>

Mixer_ODE == ODE({"Mixer"})
Splitter_ODE == ODE({"Splitter"})
Pump_ODE == ODE({"Pump", "HydraulicDelay"})

\* (variant: the dilution term Q_dot*C is left out of C_dot)
Mixer_dstate_undiluted(QC_ins, dQC_ins) ==
    LET Q_ins == LastCol(QC_ins)
        C_ins == HeadCols(QC_ins)
        dQ_ins == LastCol(dQC_ins)
        dC_ins == HeadCols(dQC_ins)
        Q == RSum(Q_ins)
        Q_dot == RSum(dQ_ins)
        C_dot == VDivS(VAdd(Dot(dQ_ins, C_ins), Dot(Q_ins, dC_ins)), Q)
    IN  Append(C_dot, Q_dot)
\* Mixer dy_dt, _n_ins > 1: Q_dot and C_dot by the quotient rule
Mixer_dstate(QC_ins, dQC_ins) ==
    LET Q_ins == LastCol(QC_ins)
        C_ins == HeadCols(QC_ins)
        dQ_ins == LastCol(dQC_ins)
        dC_ins == HeadCols(dQC_ins)
        Q == RSum(Q_ins)
        C == VDivS(Dot(Q_ins, C_ins), Q)
        Q_dot == RSum(dQ_ins)
        C_dot == VDivS(VSub(VAdd(Dot(dQ_ins, C_ins), Dot(Q_ins, dC_ins)),
                            VScale(C, Q_dot)), Q)
    IN  Append(C_dot, Q_dot)

\* Mixer._update_dstate and Pump._update_dstate
Pump_update_dstate_outs(d) == [outs EXCEPT ![1].dstate = d]

\* Mixer dy_dt(t, QC_ins, QC, dQC_ins): with several inputs the result is
\* written into the existing self._dstate (TypeError when it is None)
Mixer_dy_dt ==
    /\ kind = "Mixer"
    /\ _ODE # NoODE
    /\ \E QC \in QCVals, dQC_ins \in SeqsOf(DVecs, Len(ins)) :
        LET QC_ins == _collect_ins_state IN
        IF _ODE.n_ins > 1
        THEN IF _dstate = None
             THEN /\ last' = Call("dy_dt", "TypeError", None, QC, dQC_ins)
                  /\ UNCHANGED <<_dstate, outs>>
             ELSE /\ _dstate' = Mixer_dstate(QC_ins, dQC_ins)
                  /\ outs' = Pump_update_dstate_outs(_dstate')
                  /\ last' = Call("dy_dt", "", None, QC, dQC_ins)
        ELSE /\ _dstate' = dQC_ins[1]
             /\ outs' = Pump_update_dstate_outs(_dstate')
             /\ last' = Call("dy_dt", "", None, QC, dQC_ins)
    /\ UNCHANGED <<fanVars, pumpVars>>
    /\ UNCHANGED <<kind, ins, split, t_delay, _state, _ODE,
                   _split_out0_state, _split_out1_state, _concs, nCompiled>>

\* (variant: the upstream derivative is not taken over)
Pump_dstate_stale(dQC_ins) == IF _dstate = None THEN dQC_ins[1] ELSE _dstate
\* Pump dy_dt: self._dstate = dQC_ins[0]; self._update_dstate()
Pump_dstate(dQC_ins) == dQC_ins[1]

Pump_dy_dt ==
    /\ kind = "Pump"
    /\ _ODE # NoODE
    /\ \E QC \in QCVals, dQC_ins \in SeqsOf(DVecs, 1) :
        /\ _dstate' = Pump_dstate(dQC_ins)
        /\ outs' = Pump_update_dstate_outs(_dstate')
        /\ last' = Call("dy_dt", "", None, QC, dQC_ins)
    /\ UNCHANGED <<fanVars, pumpVars>>
    /\ UNCHANGED <<kind, ins, split, t_delay, _state, _ODE,
                   _split_out0_state, _split_out1_state, _concs, nCompiled>>

\* Splitter._update_dstate: AttributeError before any _init_state
Splitter_update_dstate_outs(d) ==
    [outs EXCEPT ![1].dstate = VMul(_split_out0_state, d),
                 ![2].dstate = VMul(_split_out1_state, d)]

\* Splitter dy_dt: self._dstate = dQC_ins[0]; self._update_dstate()
Splitter_dy_dt ==
    /\ kind = "Splitter"
    /\ _ODE # NoODE
    /\ \E QC \in QCVals, dQC_ins \in SeqsOf(DVecs, 1) :
        /\ _dstate' = dQC_ins[1]
        /\ IF _split_out0_state = None
           THEN /\ outs' = outs
                /\ last' = Call("dy_dt", "AttributeError", None, QC, dQC_ins)
           ELSE /\ outs' = Splitter_update_dstate_outs(_dstate')
                /\ last' = Call("dy_dt", "", None, QC, dQC_ins)
    /\ UNCHANGED <<fanVars, pumpVars>>
    /\ UNCHANGED <<kind, ins, split, t_delay, _state, _ODE,
                   _split_out0_state, _split_out1_state, _concs, nCompiled>>

\* HydraulicDelay dy_dt: the first-order lag, branching on the upstream
\* flow derivative being exactly 0
HydraulicDelay_dstate(T, QC_ins, QC, dQC_ins) ==
    LET Q_in == Flow(QC_ins[1])
        Q == Flow(QC)
        C_in == Conc(QC_ins[1])
        C == Conc(QC)
    IN  IF REq(Flow(dQC_ins[1]), R(0))
        THEN Append(VDivS(VSub(VScale(C_in, Q_in), VScale(C, Q)),
                          RMul(Q, T)),
                    R(0))
        ELSE Append(VDivS(VScale(VSub(C_in, C), RDiv(Q_in, Q)), T),
                    RDiv(RSub(Q_in, Q), T))

\* dQC = self._dstate; dQC[-1] = ... raises TypeError while self._dstate
\* is None
HydraulicDelay_dy_dt ==
    /\ kind = "HydraulicDelay"
    /\ _ODE # NoODE
    /\ \E QC \in QCVals, dQC_ins \in SeqsOf(DVecs, 1) :
        IF _dstate = None
        THEN /\ last' = Call("dy_dt", "TypeError", None, QC, dQC_ins)
             /\ UNCHANGED <<_dstate, outs>>
        ELSE /\ _dstate' = HydraulicDelay_dstate(_ODE.T, _collect_ins_state,
                                                 QC, dQC_ins)
             /\ outs' = Pump_update_dstate_outs(_dstate')
             /\ last' = Call("dy_dt", "", None, QC, dQC_ins)
    /\ UNCHANGED <<fanVars, pumpVars>>
    /\ UNCHANGED <<kind, ins, split, t_delay, _state, _ODE,
                   _split_out0_state, _split_out1_state, _concs, nCompiled>>


\* ------------------------------------------------------- ComponentSplitter
\* Python values a split key can be: a str c, a tuple of items v, or
\* something that is neither (an int)
S(str) == [t |-> "str", c |-> str, v |-> << >>]
Tup(items) == [t |-> "tuple", c |-> "", v |-> items]
AnInt == [t |-> "int", c |-> "", v |-> << >>]
\* the characters of a str
chars(str) ==
    IF str = "" THEN << >>
    ELSE IF str = "NH3" THEN <<"N", "H", "3">>
    ELSE <<str>>

\* component IDs of the steady-state flowsheet
FanIDs == {"A", "B", "C", "NH3"}
sA == S("A")
sB == S("B")
sC == S("C")
sNH3 == S("NH3")

\* most keys a ComponentSplitter is built with
MaxKeys == 2
\* the items of a split-key collection
KeyItems == {sA, Tup(<<sA, sB>>), Tup(<<sB, sC>>), Tup(<<sA, sA>>), AnInt}
KeysOfLen(n) == {Tup(k) : k \in SeqsOf(KeyItems, n)}
\* split_keys given to __init__
CtorKeys == UNION {KeysOfLen(n) : n \in 0..MaxKeys} \cup {sA, sNH3, S("")}
\* split_keys assigned later: as many keys as at construction, fewer, more
SetterItems == {sA, sB, Tup(<<sB, sC>>)}
SetterKeys ==
    UNION {{Tup(k) : k \in SeqsOf(SetterItems, n)} : n \in 1..(MaxKeys + 1)}
    \cup {sA}

Mass(a, b, c, n) ==
    [id \in FanIDs |-> IF id = "A" THEN a ELSE IF id = "B" THEN b
                       ELSE IF id = "C" THEN c ELSE n]
\* the input streams' component masses
FanInputs == {<<Mass(10, 5, 3, 0)>>,
              <<Mass(10, 0, 3, 1), Mass(0, 5, 0, 1)>>}
NoMass == Mass(0, 0, 0, 0)
NoKeys == Tup(<< >>)

FanCall(op, err) == [op |-> op, err |-> err]

\* len(x) of a str or a tuple
len(x) == IF x.t = "str" THEN Len(chars(x.c)) ELSE Len(x.v)

\* ComponentSplitter.__init__
CS_init_err(split_keys) == IF len(split_keys) = 0 THEN "ValueError" ELSE ""
CS_init_N_outs(split_keys) ==
    IF split_keys.t = "str" THEN 2 ELSE len(split_keys) + 1

CS_init ==
    /\ ~built
    /\ \E split_keys \in CtorKeys :
        IF CS_init_err(split_keys) # ""
        THEN /\ fan_last' = FanCall("__init__", CS_init_err(split_keys))
             /\ UNCHANGED <<built, _split_keys, _N_outs, fan_outs>>
        ELSE /\ built' = TRUE
             /\ _N_outs' = CS_init_N_outs(split_keys)
             /\ fan_outs' = [i \in 1.._N_outs' |-> NoMass]
             /\ _split_keys' = split_keys
             /\ fan_last' = FanCall("__init__", "")
    /\ UNCHANGED fan_ins
    /\ UNCHANGED <<nodeVars, pumpVars>>

\* last.mix_from(self.ins): the component masses of all inputs added up
RECURSIVE mix_from(_)
mix_from(streams) ==
    IF streams = << >> THEN NoMass
    ELSE [id \in FanIDs |-> streams[1][id] + mix_from(Tail(streams))[id]]

\* what enumerate(self.split_keys) yields: the items of a tuple, the
\* characters of a str
items(keys) ==
    IF keys.t = "str" THEN [i \in DOMAIN chars(keys.c) |-> S(chars(keys.c)[i])]
    ELSE keys.v

\* (variant: the component is copied and not removed from the last output)
move_copy(o, num, cmp) == [o EXCEPT ![num][cmp] = o[Len(o)][cmp]]
\* self.outs[num].imass[cmp] = last.imass[cmp]; last.imass[cmp] = 0
move(o, num, cmp) ==
    LET o1 == [o EXCEPT ![num][cmp] = o[Len(o)][cmp]]
    IN  [o1 EXCEPT ![Len(o)][cmp] = 0]

\* the inner loop of _run over the components cmps of key number num
\* (0-based in the source, 1-based here); st = [outs, splitted, err]
RECURSIVE run_cmps(_, _, _)
run_cmps(cmps, num, st) ==
    IF cmps = << >> \/ st.err # "" THEN st
    ELSE LET cmp == cmps[1].c
             L == Len(st.outs)
         IN  IF cmp \notin FanIDs
             THEN [st EXCEPT !.err = "UndefinedChemical"]
             ELSE IF num > L
             THEN [st EXCEPT !.err = "IndexError"]
             ELSE LET o2 == move(st.outs, num, cmp)
                  IN  IF cmp \in st.splitted
                      THEN [outs |-> o2, splitted |-> st.splitted,
                            err |-> "ValueError"]
                      ELSE run_cmps(Tail(cmps), num,
                                    [outs |-> o2,
                                     splitted |-> st.splitted \cup {cmp},
                                     err |-> ""])

\* the outer loop of _run over the keys from number num on
RECURSIVE run_keys(_, _, _)
run_keys(keys, num, st) ==
    IF keys = << >> \/ st.err # "" THEN st
    ELSE LET k == keys[1] IN
         IF k.t = "str"
         THEN run_keys(Tail(keys), num + 1, run_cmps(<<k>>, num, st))
         ELSE IF k.t # "tuple"
         THEN [st EXCEPT !.err = "ValueError"]
         ELSE run_keys(Tail(keys), num + 1, run_cmps(k.v, num, st))

\* ComponentSplitter._run
CS_run_result ==
    LET L == Len(fan_outs)
        mixed == [fan_outs EXCEPT ![L] = mix_from(fan_ins)]
    IN  run_keys(items(_split_keys), 1,
                 [outs |-> mixed, splitted |-> {}, err |-> ""])

CS_run ==
    /\ built
    /\ fan_outs' = CS_run_result.outs
    /\ fan_last' = FanCall("_run", CS_run_result.err)
    /\ UNCHANGED <<built, _split_keys, _N_outs, fan_ins>>
    /\ UNCHANGED <<nodeVars, pumpVars>>

\* the split_keys setter
CS_setter_value(i) == IF i.t = "str" THEN Tup(<<i>>) ELSE i
CS_setter_err(i) ==
    IF len(CS_setter_value(i)) # Len(fan_outs) THEN "ValueError" ELSE ""

CS_set_split_keys_call(i) ==
    /\ built
    /\ _split_keys' = IF CS_setter_err(i) = ""
                      THEN CS_setter_value(i) ELSE _split_keys
    /\ fan_last' = FanCall("split_keys.setter", CS_setter_err(i))
    /\ UNCHANGED <<built, _N_outs, fan_ins, fan_outs>>
    /\ UNCHANGED <<nodeVars, pumpVars>>

CS_set_split_keys == \E i \in SetterKeys : CS_set_split_keys_call(i)

\* ------------------------------------------------------------------ WWTpump
\* a str is the sequence of its characters
Upper == <<"A", "B", "C", "D", "E", "F", "G", "H", "I", "J", "K", "L", "M",
           "N", "O", "P", "Q", "R", "S", "T", "U", "V", "W", "X", "Y", "Z">>
Lower == <<"a", "b", "c", "d", "e", "f", "g", "h", "i", "j", "k", "l", "m",
           "n", "o", "p", "q", "r", "s", "t", "u", "v", "w", "x", "y", "z">>

\* str.lower()
lower(str) ==
    [k \in DOMAIN str |->
        IF \E u \in DOMAIN Upper : Upper[u] = str[k]
        THEN Lower[CHOOSE u \in DOMAIN Upper : Upper[u] = str[k]]
        ELSE str[k]]

\* str.replace(old, new): every non-overlapping occurrence, left to right
RECURSIVE replace(_, _, _)
replace(str, old, new) ==
    IF Len(str) < Len(old) THEN str
    ELSE IF SubSeq(str, 1, Len(old)) = old
         THEN new \o replace(SubSeq(str, Len(old) + 1, Len(str)), old, new)
         ELSE <<Head(str)>> \o replace(Tail(str), old, new)

\* WWTpump._valid_pump_types
_valid_pump_types == <<
    <<"p", "e", "r", "m", "e", "a", "t", "e", "_", "c", "r", "o", "s", "s",
      "-", "f", "l", "o", "w">>,
    <<"r", "e", "t", "e", "n", "t", "a", "t", "e", "_", "C", "S", "T", "R">>,
    <<"r", "e", "t", "e", "n", "t", "a", "t", "e", "_", "A", "F">>,
    <<"r", "e", "c", "i", "r", "c", "u", "l", "a", "t", "i", "o", "n", "_",
      "C", "S", "T", "R">>,
    <<"r", "e", "c", "i", "r", "c", "u", "l", "a", "t", "i", "o", "n", "_",
      "A", "F">>,
    <<"l", "i", "f", "t">>,
    <<"s", "l", "u", "d", "g", "e">>,
    <<"c", "h", "e", "m", "i", "c", "a", "l">>
    >>
valid_pump_types == {_valid_pump_types[k] : k \in DOMAIN _valid_pump_types}

\* values given as pump_type: the valid types in several spellings, and
\* strings that are no pump type
PumpTypeArgs == {
    <<"p", "e", "r", "m", "e", "a", "t", "e", "_", "c", "r", "o", "s", "s",
      "-", "f", "l", "o", "w">>,
    <<"r", "e", "t", "e", "n", "t", "a", "t", "e", "_", "C", "S", "T", "R">>,
    <<"r", "e", "t", "e", "n", "t", "a", "t", "e", "_", "A", "F">>,
    <<"r", "e", "c", "i", "r", "c", "u", "l", "a", "t", "i", "o", "n", "_",
      "C", "S", "T", "R">>,
    <<"r", "e", "c", "i", "r", "c", "u", "l", "a", "t", "i", "o", "n", "_",
      "A", "F">>,
    <<"l", "i", "f", "t">>,
    <<"s", "l", "u", "d", "g", "e">>,
    <<"c", "h", "e", "m", "i", "c", "a", "l">>,
    <<"r", "e", "t", "e", "n", "t", "a", "t", "e", "_", "c", "s", "t", "r">>,
    <<"R", "e", "t", "e", "n", "t", "a", "t", "e", "_", "a", "f">>,
    <<"R", "E", "C", "I", "R", "C", "U", "L", "A", "T", "I", "O", "N", "_",
      "C", "S", "T", "R">>,
    <<"r", "e", "c", "i", "r", "c", "u", "l", "a", "t", "i", "o", "n", "_",
      "A", "f">>,
    <<"L", "I", "F", "T">>,
    <<"S", "l", "u", "d", "g", "e">>,
    <<"P", "e", "r", "m", "e", "a", "t", "e", "_", "C", "r", "o", "s", "s",
      "-", "F", "l", "o", "w">>,
    << >>,
    <<"l", "i", "f", "t", "s">>,
    <<"c", "s", "t", "r">>,
    <<"A", "F">>,
    <<"r", "e", "t", "e", "n", "t", "a", "t", "e">>,
    <<"C", "h", "e", "m", "i", "c", "a", "l">>,
    <<"R", "E", "T", "E", "N", "T", "A", "T", "E", "_", "A", "F">>,
    <<"p", "u", "m", "p">>,
    <<"s", "l", "u", "d", "g", "e", "s">>,
    <<"D", "e", "f", "a", "u", "l", "t">>,
    <<"p", "e", "r", "m", "e", "a", "t", "e", "_", "c", "r", "o", "s", "s",
      "_", "f", "l", "o", "w">>
    }

PumpCall(op, err, arg) == [op |-> op, err |-> err, arg |-> arg]

\* (variant: 'cstr' is not put back in capitals)
canonical_lowercase_cstr(i) ==
    replace(lower(i), <<"a", "f">>, <<"A", "F">>)
\* the pump_type setter's i_lower
canonical(i) ==
    replace(replace(lower(i), <<"c", "s", "t", "r">>, <<"C", "S", "T", "R">>),
            <<"a", "f">>, <<"A", "F">>)

pump_type_setter_err(i) ==
    IF canonical(i) \notin valid_pump_types THEN "ValueError" ELSE ""

\* WWTpump.__init__: self.pump_type = pump_type; when the setter raises no
\* object is returned
WWTpump_init ==
    /\ ~pump_built
    /\ \E i \in PumpTypeArgs :
        IF pump_type_setter_err(i) # ""
        THEN /\ pump_last' = PumpCall("__init__", pump_type_setter_err(i), i)
             /\ UNCHANGED <<pump_built, _pump_type>>
        ELSE /\ _pump_type' = canonical(i)
             /\ pump_built' = TRUE
             /\ pump_last' = PumpCall("__init__", "", i)
    /\ UNCHANGED <<nodeVars, fanVars>>

\* pump.pump_type = i
WWTpump_set_pump_type ==
    /\ pump_built
    /\ \E i \in PumpTypeArgs :
        IF pump_type_setter_err(i) # ""
        THEN /\ pump_last' = PumpCall("pump_type", pump_type_setter_err(i), i)
             /\ UNCHANGED _pump_type
        ELSE /\ _pump_type' = canonical(i)
             /\ pump_last' = PumpCall("pump_type", "", i)
    /\ UNCHANGED pump_built
    /\ UNCHANGED <<nodeVars, fanVars>>

\* ---------------------------------------------------------- specification
\* no ComponentSplitter in the dynamic flowsheet, no dynamic unit in the
\* steady-state one
FanIdle ==
    /\ built = FALSE
    /\ _split_keys = NoKeys
    /\ _N_outs = 0
    /\ fan_ins = << >>
    /\ fan_outs = << >>
    /\ fan_last = FanCall("", "")

NodeIdle ==
    /\ kind = "ComponentSplitter"
    /\ ins = << >>
    /\ split = None
    /\ t_delay = None
    /\ _concs = None
    /\ _split_out0_state = None
    /\ _split_out1_state = None
    /\ _state = None
    /\ _dstate = None
    /\ _ODE = NoODE
    /\ outs = << >>
    /\ nCompiled = 0
    /\ last = NoCall

PumpIdle ==
    /\ pump_built = FALSE
    /\ _pump_type = None
    /\ pump_last = PumpCall("", "", None)

Init == NodeInit /\ FanIdle /\ PumpIdle

Next ==
    \/ Mixer_reset_cache \/ Splitter_reset_cache \/ Pump_reset_cache
    \/ Mixer_init_state \/ Splitter_init_state \/ Pump_init_state
    \/ HydraulicDelay_init_state \/ set_init_conc
    \/ Mixer_update_state \/ Pump_update_state \/ Splitter_update_state
    \/ Mixer_state_setter \/ Splitter_state_setter \/ Pump_state_setter
    \/ Mixer_ODE \/ Splitter_ODE \/ Pump_ODE
    \/ Mixer_dy_dt \/ Pump_dy_dt \/ Splitter_dy_dt \/ HydraulicDelay_dy_dt

vars == <<nodeVars, fanVars, pumpVars>>

Spec == Init /\ [][Next]_vars

\* the steady-state flowsheet: one ComponentSplitter
InitFan ==
    /\ NodeIdle
    /\ PumpIdle
    /\ built = FALSE
    /\ _split_keys = NoKeys
    /\ _N_outs = 0
    /\ fan_ins \in FanInputs
    /\ fan_outs = << >>
    /\ fan_last = FanCall("", "")

NextFan == CS_init \/ CS_run \/ CS_set_split_keys

SpecFan == InitFan /\ [][NextFan]_vars

\* one WWTpump: construction, then assignments to pump_type
InitPump ==
    /\ kind = "WWTpump"
    /\ ins = << >>
    /\ split = None
    /\ t_delay = None
    /\ _concs = None
    /\ _split_out0_state = None
    /\ _split_out1_state = None
    /\ _state = None
    /\ _dstate = None
    /\ _ODE = NoODE
    /\ outs = << >>
    /\ nCompiled = 0
    /\ last = NoCall
    /\ FanIdle
    /\ PumpIdle

NextPump == WWTpump_init \/ WWTpump_set_pump_type

SpecPump == InitPump /\ [][NextPump]_vars


\* ================================================================ claims
AllOutsEmpty == \A i \in DOMAIN outs : outs[i] = EmptyStream
IsStateVector(v) == Len(v) = NComp + 1
Zeros == [i \in 1..(NComp + 1) |-> R(0)]

\* C1: reset_cache(), called in any state, succeeds and leaves the State
\* Vector undefined, the Derivative Vector undefined and every output
\* buffer empty.
C1_ResetClearsEverything ==
    last.op = "reset_cache" =>
        /\ last.err = ""
        /\ _state = None
        /\ _dstate = None
        /\ AllOutsEmpty

\* what init_state() leaves on a node constructed with the same inputs and
\* the same configuration (split, initial-concentration override)
FreshState ==
    IF kind = "Mixer" THEN Mixer_state0(ins)
    ELSE IF kind = "HydraulicDelay" THEN HydraulicDelay_state0(ins, _concs)
    ELSE ins[1]
FreshDstate ==
    IF kind = "HydraulicDelay" THEN None ELSE zeros_like(FreshState)

\* C2: reset_cache() is idempotent and repeatable: after any calls it leaves
\* the state undefined and all output buffers empty, a further reset_cache()
\* changes nothing, and an init_state() that follows succeeds with the State
\* and Derivative Vectors of init_state() on a freshly constructed node.
C2_ResetIdempotent ==
    [][/\ last'.op = "reset_cache" =>
            /\ last'.err = "" /\ _state' = None
            /\ \A i \in DOMAIN outs' : outs'[i] = EmptyStream
            /\ last.op = "reset_cache" => UNCHANGED <<nodeVars, pumpVars>>
       /\ (last.op = "reset_cache" /\ last'.op = "init_state") =>
            /\ last'.err = ""
            /\ _state' = FreshState
            /\ _dstate' = FreshDstate
            /\ \A i \in DOMAIN outs' : outs'[i] = EmptyStream]_vars

\* a reset that follows initialisation, compilation and a derivative
\* evaluation
C2_Witness ==
    /\ last.op = "reset_cache"
    /\ _state = None /\ AllOutsEmpty
    /\ _dstate # None /\ _dstate # Zeros
    /\ nCompiled = 1

\* C3: a state assignment (update_state or the state setter) with a vector
\* whose length is not n_components + 1 fails with a shape-mismatch error
\* and leaves the State Vector and the output buffers unchanged.
C3_ShapeMismatchRejected ==
    [][(last'.op \in {"update_state", "state.setter"}
        /\ ~IsStateVector(last'.arr)) =>
            /\ last'.err = "ValueError"
            /\ _state' = _state
            /\ outs' = outs]_vars

\* C4: the derivative function is compiled at most once: the first ODE
\* access compiles it, and every later access or evaluation, whatever
\* init_state / reset_cache calls lie between, finds that same function.
C4_CompiledOnce ==
    /\ nCompiled <= 1
    /\ (_ODE = NoODE) = (nCompiled = 0)
    /\ _ODE # NoODE => _ODE.id = 1 /\ _ODE.fn = kind
    /\ last.op \in {"ODE", "dy_dt"} => _ODE # NoODE

\* an ODE access on a node that evaluated a derivative and was reset before
C4_Witness ==
    /\ last.op = "ODE"
    /\ nCompiled = 1
    /\ _dstate # None
    /\ _state = None

\* C5: after init_state and update_state(arr) the two Splitter outputs
\* conserve mass and flow for every Split Ratio Vector in [0,1]^n, the
\* reference fractions 0 and 1 included:
\*   Q0*C0_j + Q1*C1_j == Q*C_j  for every j, and  Q0 + Q1 == Q.
C5_SplitterConserves ==
    (kind = "Splitter" /\ last.op = "update_state" /\ last.err = ""
     /\ IsStateVector(last.arr)) =>
        LET o0 == outs[1].state
            o1 == outs[2].state
            arr == last.arr
        IN  /\ \A j \in 1..NComp :
                REq(RAdd(RMul(Flow(o0), o0[j]), RMul(Flow(o1), o1[j])),
                    RMul(Flow(arr), arr[j]))
            /\ REq(RAdd(Flow(o0), Flow(o1)), Flow(arr))

\* the component IDs key number i of a collection names, and all places
\* <<i, j>> of a collection where a component ID stands
Comps(item) ==
    IF item.t = "str" THEN <<item.c>>
    ELSE [j \in DOMAIN item.v |-> item.v[j].c]
Places(keys) ==
    UNION {{<<i, j>> : j \in DOMAIN Comps(items(keys)[i])} :
              i \in DOMAIN items(keys)}
At(keys, p) == Comps(items(keys)[p[1]])[p[2]]
HasDuplicate(keys) ==
    \E p, q \in Places(keys) : p # q /\ At(keys, p) = At(keys, q)

\* C6: a run with split keys that name some component more than once, in
\* two groups or twice in one, is rejected with an error and leaves every
\* output stream, the final one included, as it was before the call.
C6_DuplicateRejectedUntouched ==
    [][(fan_last'.op = "_run" /\ HasDuplicate(_split_keys)) =>
            /\ fan_last'.err # ""
            /\ fan_outs' = fan_outs]_vars

KeyCount(i) == IF i.t = "str" THEN 1 ELSE Len(i.v)
KeysAtConstruction == _N_outs - 1

\* C7: no ComponentSplitter is constructed with an empty split-key
\* collection, and a later assignment of split_keys succeeds exactly when it
\* has as many keys as at construction; a failed one leaves split_keys and
\* the number of outputs unchanged.
C7_SizeFixed ==
    [][/\ (fan_last'.op = "__init__" /\ built') => len(_split_keys') > 0
       /\ \A i \in SetterKeys :
            CS_set_split_keys_call(i) =>
                /\ (fan_last'.err = "") = (KeyCount(i) = KeysAtConstruction)
                /\ fan_last'.err # "" =>
                      /\ _split_keys' = _split_keys
                      /\ Len(fan_outs') = Len(fan_outs)]_vars

\* mass of component c in all inputs, and in all outputs
SumOver(streams, c) ==
    LET f[i \in 0..Len(streams)] ==
            IF i = 0 THEN 0 ELSE f[i - 1] + streams[i][c]
    IN  f[Len(streams)]
\* a collection of pairwise-disjoint keys, each a component ID or a group
ValidDisjoint(keys) ==
    /\ keys.t = "tuple"
    /\ \A i \in DOMAIN keys.v : keys.v[i].t \in {"str", "tuple"}
    /\ \A p \in Places(keys) : At(keys, p) \in FanIDs
    /\ ~HasDuplicate(keys)
Group(keys, i) == {At(keys, p) : p \in {q \in Places(keys) : q[1] = i}}

\* C8: a run with pairwise-disjoint keys k_0..k_{m-1} on m+1 outputs
\* succeeds and leaves every component of k_i wholly in output i and in no
\* other output, every unassigned component wholly in the final output, so
\* that each component's mass over all outputs is its mass over all inputs.
C8_FanOutRoutes ==
    (fan_last.op = "_run" /\ ValidDisjoint(_split_keys)
     /\ Len(_split_keys.v) + 1 = Len(fan_outs)) =>
        /\ fan_last.err = ""
        /\ \A c \in FanIDs :
            /\ \A i \in DOMAIN _split_keys.v :
                  c \in Group(_split_keys, i) =>
                      /\ fan_outs[i][c] = SumOver(fan_ins, c)
                      /\ \A j \in DOMAIN fan_outs :
                            j # i => fan_outs[j][c] = 0
            /\ (\A i \in DOMAIN _split_keys.v : c \notin Group(_split_keys, i))
                  => fan_outs[Len(fan_outs)][c] = SumOver(fan_ins, c)
            /\ SumOver(fan_outs, c) = SumOver(fan_ins, c)

\* inflow {A:10, B:5, C:3}, keys ["A", ("B","C")]: A in output 0, B and C
\* in output 1, nothing left in output 2
C8_Witness ==
    /\ fan_last = FanCall("_run", "")
    /\ fan_ins = <<Mass(10, 5, 3, 0)>>
    /\ _split_keys = Tup(<<sA, Tup(<<sB, sC>>)>>)
    /\ fan_outs = <<Mass(10, 0, 0, 0), Mass(0, 5, 3, 0), NoMass>>

\* C9: single-input pass-through: for a Pump, or a Mixer with one input,
\* init_state leaves the input's State Vector, and every derivative
\* evaluation leaves the input's Derivative Vector in the node and in its
\* output buffer.
SingleInputPassThrough ==
    kind = "Pump" \/ (kind = "Mixer" /\ Len(ins) = 1)

C9_PassThrough ==
    SingleInputPassThrough =>
        /\ last.op = "init_state" => last.err = "" /\ _state = ins[1]
        /\ last.op = "dy_dt" =>
              /\ last.err = ""
              /\ _dstate = last.dQC[1]
              /\ outs[1].dstate = last.dQC[1]

\* an evaluation that replaces an earlier, different derivative
C9_Witness ==
    /\ SingleInputPassThrough
    /\ last.op = "dy_dt"
    /\ _state = ins[1]
    /\ _dstate = VecOf(<<-6, 2, 1>>)
    /\ outs[1].dstate = _dstate
    /\ outs[1].state # None

\* C10: Mixer init_state with N >= 2 inputs of positive total flow:
\* Q = sum_i Q_i and Q*C_j = sum_i Q_i*C_ij for every j, and the Derivative
\* Vector is all zeros of length n_components + 1.
TotalFlow == RSum([i \in DOMAIN ins |-> Flow(ins[i])])
TotalMass(j) == RSum([i \in DOMAIN ins |-> RMul(Flow(ins[i]), ins[i][j])])

C10_MixerConserves ==
    (kind = "Mixer" /\ Len(ins) >= 2 /\ last.op = "init_state"
     /\ IsFinite(TotalFlow) /\ TotalFlow[1] > 0) =>
        /\ IsStateVector(_state)
        /\ Flow(_state) = TotalFlow
        /\ \A j \in 1..NComp : RMul(Flow(_state), _state[j]) = TotalMass(j)
        /\ _dstate = Zeros

\* Q1=10, C1=[100,0], Q2=5, C2=[0,200]: Q=15, C=[200/3, 200/3]
C10_Witness ==
    /\ kind = "Mixer"
    /\ last.op = "init_state"
    /\ ins = <<VecOf(<<100, 0, 10>>), VecOf(<<0, 200, 5>>)>>
    /\ _state = <<Norm(200, 3), Norm(200, 3), R(15)>>
    /\ _dstate = Zeros

\* C11: Mixer derivative, N >= 2 inputs of positive total flow, once the
\* Derivative Vector exists: an evaluation succeeds and stores
\* dQ = sum_i dQ_i in the last entry and dC with
\* Q*dC_j = sum_i dQ_i*C_ij + sum_i Q_i*dC_ij - dQ*C_j, where Q = sum_i Q_i
\* and Q*C_j = sum_i Q_i*C_ij; the result is a function of the upstream
\* states and derivatives alone, whatever state argument QC was passed.
TotalDFlow == RSum([i \in DOMAIN last.dQC |-> Flow(last.dQC[i])])
MassRate(j) ==
    RAdd(RSum([i \in DOMAIN ins |-> RMul(Flow(last.dQC[i]), ins[i][j])]),
         RSum([i \in DOMAIN ins |-> RMul(Flow(ins[i]), last.dQC[i][j])]))

C11_MixerDerivative ==
    (kind = "Mixer" /\ Len(ins) >= 2 /\ last.op = "dy_dt" /\ _dstate # None
     /\ IsFinite(TotalFlow) /\ TotalFlow[1] > 0) =>
        /\ last.err = ""
        /\ IsStateVector(_dstate)
        /\ Flow(_dstate) = TotalDFlow
        /\ \A j \in 1..NComp :
              RMul(TotalFlow, _dstate[j]) =
                  RSub(MassRate(j),
                       RMul(TotalDFlow, RDiv(TotalMass(j), TotalFlow)))
        /\ outs[1].dstate = _dstate

\* Q = [10, 5], C = [[100, 0], [0, 200]], dQ = [0, 1],
\* dC = [[3, 0], [-6, 2]]: dQ = 1, dC = [-40/9, 86/9]
C11_Witness ==
    /\ kind = "Mixer"
    /\ last.op = "dy_dt"
    /\ ins = <<VecOf(<<100, 0, 10>>), VecOf(<<0, 200, 5>>)>>
    /\ last.dQC = <<VecOf(<<3, 0, 0>>), VecOf(<<-6, 2, 1>>)>>
    /\ _dstate = <<Norm(-40, 9), Norm(86, 9), R(1)>>

\* C12: Delay step response. With T > 0 and a constant upstream stream
\* (dQ_in = 0), an evaluation on an initialised Delay at own state QC
\* yields, for every component j, a derivative that points from C_j towards
\* C_in_j and is at most (C_in_j - C_j)/T in size, so that a step of length
\* h <= T along it never changes the sign of the error C_in_j - C_j and
\* never makes it grow.
RSign(x) == Sign(x[1])
RAbsLeq(x, y) == Abs(x[1]) * y[2] <= Abs(y[1]) * x[2]

C12_DelayStepResponse ==
    (kind = "HydraulicDelay" /\ last.op = "dy_dt" /\ _state # None
     /\ REq(Flow(last.dQC[1]), R(0))
     /\ IsFinite(Flow(last.QC)) /\ Flow(last.QC)[1] > 0) =>
        /\ last.err = ""
        /\ \A j \in 1..NComp :
              LET e == RSub(ins[1][j], last.QC[j])
                  step == RMul(_ODE.T, _dstate[j])
              IN  /\ RSign(step) = RSign(e)
                  /\ RAbsLeq(step, e)

\* C13: the pump type of a WWTpump is always one of the eight valid types.
\* Constructing with, or assigning, a value succeeds exactly when it equals
\* a valid type up to letter case, and then that type is stored in its
\* canonical spelling; otherwise ValueError is raised, and a failed
\* assignment leaves the previous type in place (a failed construction
\* leaves no pump).
SameIgnoringCase(x, y) == lower(x) = lower(y)
MatchingTypes(i) ==
    {k \in DOMAIN _valid_pump_types :
        SameIgnoringCase(i, _valid_pump_types[k])}

C13_PumpTypeValid ==
    [][LET i == pump_last'.arg
       IN  /\ pump_last'.err = "" <=> MatchingTypes(i) # {}
           /\ pump_last'.err = "" =>
                 /\ pump_built'
                 /\ \E k \in MatchingTypes(i) :
                       _pump_type' = _valid_pump_types[k]
           /\ pump_last'.err # "" =>
                 /\ pump_last'.err = "ValueError"
                 /\ _pump_type' = _pump_type
                 /\ pump_built' = pump_built
           /\ pump_built' => _pump_type' \in valid_pump_types]_vars

\* pump.pump_type = 'retentate_cstr' on a pump of another type
C13_Witness ==
    /\ pump_built
    /\ pump_last.op = "pump_type"
    /\ pump_last.err = ""
    /\ pump_last.arg = <<"r", "e", "t", "e", "n", "t", "a", "t", "e", "_",
                         "c", "s", "t", "r">>
    /\ _pump_type = _valid_pump_types[2]

\* C14: after init_state() on a Mixer, Splitter, Pump or Delay, fresh or
\* just reset, the State Vector and the Derivative Vector are both defined
\* and have length n_components + 1, so that an ODE evaluation that follows
\* can write the derivative.
C14_InitDefinesBothVectors ==
    last.op = "init_state" =>
        /\ last.err = ""
        /\ _state # None /\ IsStateVector(_state)
        /\ _dstate # None /\ IsStateVector(_dstate)

\* C15: update_state(arr) with arr of length n_components + 1 succeeds,
\* stores arr as the State Vector and writes its transformation to every
\* output: the single output of a Mixer, Pump or Delay holds arr, and the
\* outputs of an initialised Splitter hold branch0_scale*arr and
\* branch1_scale*arr, with branch0_scale = append(s/s_ref, s_ref) and
\* branch1_scale = append((1 - s)/(1 - s_ref), 1 - s_ref).
s_ref == split[index("H2O")]
branch0_scale ==
    [j \in 1..(NComp + 1) |->
        IF j <= NComp THEN RDiv(split[j], s_ref) ELSE s_ref]
branch1_scale ==
    [j \in 1..(NComp + 1) |->
        IF j <= NComp THEN RDiv(RSub(R(1), split[j]), RSub(R(1), s_ref))
        ELSE RSub(R(1), s_ref)]
Scaled(scale, v) == [j \in 1..(NComp + 1) |-> RMul(scale[j], v[j])]

C15_UpdateStatePropagates ==
    (last.op = "update_state" /\ IsStateVector(last.arr)) =>
        /\ _state = last.arr
        /\ kind \in {"Mixer", "Pump", "HydraulicDelay"} =>
              /\ last.err = ""
              /\ Len(outs) = 1
              /\ outs[1].state = last.arr
        /\ (kind = "Splitter" /\ _split_out0_state # None) =>
              /\ last.err = ""
              /\ Len(outs) = 2
              /\ outs[1].state = Scaled(branch0_scale, last.arr)
              /\ outs[2].state = Scaled(branch1_scale, last.arr)

\* s = [1, 1/2] with s_ref = 1/2, arr = [40, 200, 5]: the scales are
\* [2, 1, 1/2] and [0, 1, 1/2]
C15_Witness ==
    /\ kind = "Splitter"
    /\ last.op = "update_state"
    /\ last.arr = VecOf(<<40, 200, 5>>)
    /\ split = <<R(1), Norm(1, 2)>>
    /\ outs[1].state = <<R(80), R(200), Norm(5, 2)>>
    /\ outs[2].state = <<R(0), R(200), Norm(5, 2)>>

\* C16: after every ODE evaluation of a dynamic node that init_state has
\* prepared, the derivative slot of each output buffer holds the node's
\* transformation of the Derivative Vector just computed: the vector itself
\* for Mixer, Pump and Delay, branch0_scale*dstate and branch1_scale*dstate
\* for the Splitter, whose dstate is its input's derivative.
Prepared ==
    CASE kind = "Mixer" -> Len(ins) = 1 \/ _dstate # None
      [] kind = "Splitter" -> _split_out0_state # None
      [] kind = "HydraulicDelay" -> _state # None
      [] OTHER -> TRUE

DstatePropagated ==
    /\ last.err = ""
    /\ IsStateVector(_dstate)
    /\ IF kind = "Splitter"
       THEN /\ _dstate = last.dQC[1]
            /\ outs[1].dstate = Scaled(branch0_scale, _dstate)
            /\ outs[2].dstate = Scaled(branch1_scale, _dstate)
       ELSE outs[1].dstate = _dstate

C16_DerivativePropagates ==
    (last.op = "dy_dt" /\ Prepared) => DstatePropagated

\* C17: Delay derivative, own flow Q > 0 and T > 0, on a Delay that holds a
\* State Vector: the evaluation succeeds and, when the upstream flow
\* derivative is exactly 0, stores dQ = 0 and Q*T*dC_j = Q_in*C_in_j - Q*C_j;
\* otherwise it stores T*dQ = Q_in - Q and Q*T*dC_j = Q_in*(C_in_j - C_j).
\* Neither the upstream concentration derivatives nor t enter the result.
DelayBranch(T, QC_in, QC, dQ_in, d) ==
    LET Q_in == Flow(QC_in)
        Q == Flow(QC)
    IN  IF REq(dQ_in, R(0))
        THEN /\ Flow(d) = R(0)
             /\ \A j \in 1..NComp :
                   RMul(RMul(Q, T), d[j]) =
                       RSub(RMul(Q_in, QC_in[j]), RMul(Q, QC[j]))
        ELSE /\ RMul(T, Flow(d)) = RSub(Q_in, Q)
             /\ \A j \in 1..NComp :
                   RMul(RMul(Q, T), d[j]) =
                       RMul(Q_in, RSub(QC_in[j], QC[j]))

C17_DelayBranches ==
    (kind = "HydraulicDelay" /\ last.op = "dy_dt" /\ _state # None
     /\ IsFinite(Flow(last.QC)) /\ Flow(last.QC)[1] > 0) =>
        /\ last.err = ""
        /\ IsStateVector(_dstate)
        /\ DelayBranch(_ODE.T, ins[1], last.QC, Flow(last.dQC[1]), _dstate)
        /\ outs[1].dstate = _dstate

\* C18: Delay init_state succeeds; without a concentration override it sets
\* the state to the input's State Vector, and after set_init_conc it sets
\* the flow entry to the input's flow and the concentration entries to the
\* override. set_init_conc(**kwargs) makes the override the named
\* components at the given values and every other component 0, and neither
\* reset_cache nor init_state changes the override.
C18_DelayInitState ==
    [][/\ (kind = "HydraulicDelay" /\ last'.op = "init_state") =>
             /\ last'.err = ""
             /\ IsStateVector(_state')
             /\ IF _concs = None
                THEN _state' = ins[1]
                ELSE /\ Flow(_state') = Flow(ins[1])
                     /\ Conc(_state') = _concs
             /\ _concs' = _concs
       /\ \A kwargs \in Kwargs :
             set_init_conc_call(kwargs) =>
                 /\ Len(_concs') = NComp
                 /\ \A i \in 1..NComp :
                       _concs'[i] = IF IDs[i] \in DOMAIN kwargs
                                    THEN R(kwargs[IDs[i]]) ELSE R(0)
       /\ (kind = "HydraulicDelay" /\ last'.op = "reset_cache") =>
             _concs' = _concs]_vars

\* set_init_conc(A=50) on a Delay fed with [100, 0, 10], then init_state
C18_Witness ==
    /\ kind = "HydraulicDelay"
    /\ last.op = "init_state"
    /\ ins[1] = VecOf(<<100, 0, 10>>)
    /\ _concs = VecOf(<<50, 0>>)
    /\ _state = VecOf(<<50, 0, 10>>)

\* C19: a ComponentSplitter constructed with one component ID given as a
\* plain string has exactly 2 outputs, and a run treats the string as one
\* key: it succeeds, that component's whole mass is in output 0 and none of
\* it in output 1, and every other component is wholly in output 1.
C19_PlainStringKey ==
    (built /\ _split_keys.t = "str") =>
        /\ _N_outs = 2
        /\ Len(fan_outs) = 2
        /\ fan_last.op = "_run" =>
              /\ fan_last.err = ""
              /\ \A c \in FanIDs :
                    IF c = _split_keys.c
                    THEN /\ fan_outs[1][c] = SumOver(fan_ins, c)
                         /\ fan_outs[2][c] = 0
                    ELSE /\ fan_outs[1][c] = 0
                         /\ fan_outs[2][c] = SumOver(fan_ins, c)

====
